---- MODULE Spec2Model ----
(***************************************************************************)
(* Expense-data-automation: the heuristic normalizer and the remote        *)
(* normalizer adapter (backend/services/ai_parser.py) and the two storage  *)
(* backends (backend/services/sqlite_db.py, firestore_db.py).              *)
(*                                                                         *)
(* Python strings are sequences of one-character strings, so that          *)
(* lower(), `in`, startswith(), replace(), strip() and float() are         *)
(* computed the way the code computes them.  Floats are fixed-point        *)
(* integers counting hundredths.  Every Python value is a record           *)
(* [t, n, s]: a type tag, a numeric payload and a string payload.          *)
(***************************************************************************)
EXTENDS Integers, Sequences, FiniteSets, TLC

VARIABLES
    GEMINI_API_KEY,   \* ai_parser.py:11, the module-level credential
    raw_data,         \* the rows handed to the normalizer
    year,             \* the year string handed to the normalizer
    pc,               \* position of the request being served
    remote,           \* what the remote service did in this call
    http_calls,       \* number of POSTs issued by the call
    raised,           \* TRUE iff the call let an exception escape
    result,           \* the value the call returned
    backend,          \* db_factory.py: the storage backend in use
    db_ok,            \* firestore_db.py:20, self.db is not None
    store,            \* the persisted records, oldest first
    before,           \* the store when the last operation but get was called
    call,             \* the arguments of save_expenses, if it was that one
    ret,              \* the result that save_expenses returned
    commits,          \* the commits that save_expenses attempted
    handed,           \* number of records handed to save_expenses so far
    query,            \* the arguments of the get_expenses_by_year that followed
    expenses,         \* what that get_expenses_by_year returned
    reply,            \* the last delete, or the listing, statistics or search
                      \* that was the last operation
    race              \* a save and a delete of two requests in progress

\* ------------------------------------------------------------------------
\* Strings
\* ------------------------------------------------------------------------
Digits == <<"0", "1", "2", "3", "4", "5", "6", "7", "8", "9">>

IsDigit(c) == \E d \in 1..10 : Digits[d] = c

DigitVal(c) == (CHOOSE d \in 1..10 : Digits[d] = c) - 1

Upper == <<"A", "B", "C", "D", "E", "F", "G", "H", "I", "J", "K", "L", "M",
           "N", "O", "P", "Q", "R", "S", "T", "U", "V", "W", "X", "Y", "Z">>

Lower == <<"a", "b", "c", "d", "e", "f", "g", "h", "i", "j", "k", "l", "m",
           "n", "o", "p", "q", "r", "s", "t", "u", "v", "w", "x", "y", "z">>

LowerChar(c) ==
    IF \E i \in 1..26 : Upper[i] = c
    THEN Lower[CHOOSE i \in 1..26 : Upper[i] = c]
    ELSE c

\* str.lower()
StrLower(s) == [i \in 1..Len(s) |-> LowerChar(s[i])]

\* s.startswith(p)
StartsWith(s, p) == Len(p) <= Len(s) /\ SubSeq(s, 1, Len(p)) = p

\* sub in s
Contains(sub, s) ==
    \E i \in 0..(Len(s) - Len(sub)) : SubSeq(s, i + 1, i + Len(sub)) = sub

\* s.replace(old, ''), scanning left to right
RECURSIVE Remove(_, _)
Remove(s, old) ==
    IF Len(s) < Len(old) THEN s
    ELSE IF SubSeq(s, 1, Len(old)) = old
         THEN Remove(SubSeq(s, Len(old) + 1, Len(s)), old)
         ELSE <<s[1]>> \o Remove(Tail(s), old)

RECURSIVE LStrip(_)
LStrip(s) == IF s # <<>> /\ s[1] = " " THEN LStrip(Tail(s)) ELSE s

RECURSIVE RStrip(_)
RStrip(s) ==
    IF s # <<>> /\ s[Len(s)] = " " THEN RStrip(SubSeq(s, 1, Len(s) - 1)) ELSE s

\* s.strip()
Strip(s) == RStrip(LStrip(s))

\* ------------------------------------------------------------------------
\* Values
\* ------------------------------------------------------------------------
PyStr(s) == [t |-> "str", n |-> 0, s |-> s]
PyFloat(n) == [t |-> "float", n |-> n, s |-> <<>>]
PyNaN == [t |-> "nan", n |-> 0, s |-> <<>>]
PyInf(sign) == [t |-> "inf", n |-> sign, s |-> <<>>]
PyNone == [t |-> "none", n |-> 0, s |-> <<>>]
\* pandas.Timestamp, n = 10000 * year + 100 * month + day
PyTimestamp(n) == [t |-> "timestamp", n |-> n, s |-> <<>>]
\* pandas.NaT: has a date attribute, strftime raises
PyNaT == [t |-> "nat", n |-> 0, s |-> <<>>]

RECURSIVE NatToStr(_)
NatToStr(n) ==
    IF n < 10 THEN <<Digits[n + 1]>>
    ELSE NatToStr(n \div 10) \o <<Digits[(n % 10) + 1]>>

Pad2(n) == <<Digits[(n \div 10) + 1], Digits[(n % 10) + 1]>>

\* value.strftime('%Y-%m-%d')
Strftime(n) ==
    NatToStr(n \div 10000) \o <<"-">> \o Pad2((n \div 100) % 100)
        \o <<"-">> \o Pad2(n % 100)

\* the fractional digits of repr(float): no trailing zero, at least one digit
FracToStr(frac) ==
    IF frac % 10 = 0 THEN <<Digits[(frac \div 10) + 1]>> ELSE Pad2(frac)

Abs(n) == IF n < 0 THEN -n ELSE n

\* str(x) of a float holding n hundredths
FloatToStr(n) ==
    (IF n < 0 THEN <<"-">> ELSE <<>>)
        \o NatToStr(Abs(n) \div 100) \o <<".">> \o FracToStr(Abs(n) % 100)

\* str(value)
Str(v) ==
    CASE v.t = "str" -> v.s
      [] v.t = "float" -> FloatToStr(v.n)
      [] v.t = "nan" -> <<"n", "a", "n">>
      [] v.t = "inf" -> (IF v.n < 0 THEN <<"-">> ELSE <<>>) \o <<"i", "n", "f">>
      [] v.t = "none" -> <<"N", "o", "n", "e">>
      [] v.t = "timestamp" ->
            Strftime(v.n) \o <<" ", "0", "0", ":", "0", "0", ":", "0", "0">>
      [] v.t = "nat" -> <<"N", "a", "T">>

RECURSIVE DigitsToNat(_)
DigitsToNat(s) ==
    IF s = <<>> THEN 0
    ELSE 10 * DigitsToNat(SubSeq(s, 1, Len(s) - 1)) + DigitVal(s[Len(s)])

AllDigits(s) == \A i \in 1..Len(s) : IsDigit(s[i])

DotAt(body) == {i \in 1..Len(body) : body[i] = "."}

\* the digits in front of the decimal point
IntPart(body) ==
    IF DotAt(body) = {} THEN body
    ELSE SubSeq(body, 1, (CHOOSE i \in DotAt(body) : TRUE) - 1)

\* the digits behind the decimal point
FracPart(body) ==
    IF DotAt(body) = {} THEN <<>>
    ELSE SubSeq(body, (CHOOSE i \in DotAt(body) : TRUE) + 1, Len(body))

\* hundredths denoted by an integer part and at most two fractional digits
Hundredths(ip, fp) ==
    100 * DigitsToNat(ip)
        + (IF Len(fp) = 0 THEN 0
           ELSE IF Len(fp) = 1 THEN 10 * DigitVal(fp[1])
           ELSE DigitsToNat(fp))

IsDecimal(ip, fp) ==
    AllDigits(ip) /\ AllDigits(fp) /\ Len(ip) + Len(fp) > 0 /\ Len(fp) <= 2

\* float() of a text without sign and surrounding whitespace
ParseUnsigned(sign, body, low) ==
    IF low = <<"n", "a", "n">> THEN [ok |-> TRUE, v |-> PyNaN]
    ELSE IF low \in {<<"i", "n", "f">>,
                     <<"i", "n", "f", "i", "n", "i", "t", "y">>}
         THEN [ok |-> TRUE, v |-> PyInf(sign)]
    ELSE IF Cardinality(DotAt(body)) <= 1 /\ IsDecimal(IntPart(body), FracPart(body))
         THEN [ok |-> TRUE,
               v |-> PyFloat(sign * Hundredths(IntPart(body), FracPart(body)))]
    ELSE [ok |-> FALSE, v |-> PyNone]

ParseSigned(s) ==
    IF s # <<>> /\ s[1] \in {"-", "+"}
    THEN ParseUnsigned(IF s[1] = "-" THEN -1 ELSE 1, Tail(s), StrLower(Tail(s)))
    ELSE ParseUnsigned(1, s, StrLower(s))

\* float(s): [ok |-> FALSE] when it raises ValueError.  Decimal literals
\* with at most two fractional digits, "nan" and "inf"/"infinity"; leading
\* and trailing whitespace is accepted, as float() does.
ParseFloat(s) == ParseSigned(Strip(s))

\* ------------------------------------------------------------------------
\* Heuristic normalizer (_mock_normalize_expense_data)
\* ------------------------------------------------------------------------
\* ai_parser.py:152
DateWords == {<<"d", "a", "t", "e">>,
    <<"d", "a", "y">>,
    <<"t", "i", "m", "e">>}

\* ai_parser.py:163
AmountWords == {<<"a", "m", "o", "u", "n", "t">>,
    <<"p", "r", "i", "c", "e">>,
    <<"c", "o", "s", "t">>,
    <<"r", "m">>}

\* ai_parser.py:163
AmountExact == {<<"a", "m", "o", "u", "n", "t">>,
    <<"t", "o", "t", "a", "l">>}

\* ai_parser.py:170
DescriptionWords == {<<"d", "e", "s", "c", "r", "i", "p", "t", "i", "o", "n">>,
    <<"d", "e", "t", "a", "i", "l">>,
    <<"i", "t", "e", "m">>,
    <<"p", "a", "r", "t", "i", "c", "u", "l", "a", "r">>}

\* ai_parser.py:174
CategoryWords == {<<"c", "a", "t", "e", "g", "o", "r", "y">>,
    <<"t", "y", "p", "e">>,
    <<"c", "l", "a", "s", "s">>}

ContainsAny(words, s) == \E w \in words : Contains(w, s)

IsDateKey(key_lower) == ContainsAny(DateWords, key_lower)

IsAmountKey(key_lower) ==
    ContainsAny(AmountWords, key_lower) \/ key_lower \in AmountExact

IsDescriptionKey(key_lower) == ContainsAny(DescriptionWords, key_lower)

IsCategoryKey(key_lower) == ContainsAny(CategoryWords, key_lower)

\* The four fields of a normalized expense
Fields == {"date", "category", "description", "amount"}

\* A Python dict holding the four fields.  `has` is the set of field names
\* x for which the Python test `x in item` is true.
Expense(d, c, ds, a) ==
    [t |-> "dict", has |-> Fields,
     date |-> d, category |-> c, description |-> ds, amount |-> a]

\* bool(value), the truth value Python gives `not date_val`
Truthy(v) ==
    CASE v.t = "none" -> FALSE
      [] v.t = "str" -> v.s # <<>>
      [] v.t = "float" -> v.n # 0
      [] OTHER -> TRUE

\* hasattr(value, 'date')
HasDateAttr(v) == v.t \in {"timestamp", "nat"}

\* lines 153-160: the date candidate of one cell
DateCandidate(date_val, value) ==
    IF value.t = "str" THEN value
    ELSE IF HasDateAttr(value)
         THEN (IF value.t = "timestamp" THEN PyStr(Strftime(value.n))
               ELSE date_val)     \* NaT.strftime raises, swallowed at 159
         ELSE date_val

\* line 165: the text handed to float()
AmountText(value) ==
    Strip(Remove(Remove(Remove(Str(value), <<",">>), <<"$">>), <<"R", "M">>))

\* a failed parse puts the default back
AmountOrDefault(amount_val, parsed) ==
    IF parsed.ok THEN parsed.v ELSE PyFloat(0)

\* lines 164-167: float() raised, or its value
AmountOr(amount_val, parsed) == IF parsed.ok THEN parsed.v ELSE amount_val

\* lines 164-167: the amount candidate of one cell
AmountCandidate(amount_val, value) ==
    AmountOr(amount_val, ParseFloat(AmountText(value)))

\* lines 151-175: the four tests on the lowered key
ClassifyKey(acc, key_lower, value) ==
    [date_val |->
        IF IsDateKey(key_lower)
        THEN DateCandidate(acc.date_val, value) ELSE acc.date_val,
     amount_val |->
        IF IsAmountKey(key_lower)
        THEN AmountCandidate(acc.amount_val, value) ELSE acc.amount_val,
     description_val |->
        IF IsDescriptionKey(key_lower)
        THEN PyStr(Str(value)) ELSE acc.description_val,
     category_val |->
        IF IsCategoryKey(key_lower)
        THEN PyStr(Str(value)) ELSE acc.category_val]

\* lines 148-175: one (key, value) pair of the row
ClassifyCell(acc, cell) == ClassifyKey(acc, StrLower(cell.key), cell.value)

\* lines 143-146
RowDefaults ==
    [date_val |-> PyNone,
     amount_val |-> PyFloat(0),
     description_val |-> PyStr(<<"E", "x", "p", "e", "n", "s", "e">>),
     category_val |-> PyStr(<<"G", "e", "n", "e", "r", "a", "l">>)]

RECURSIVE ClassifyRow(_, _)
ClassifyRow(acc, row) ==
    IF row = <<>> THEN acc
    ELSE ClassifyRow(ClassifyCell(acc, Head(row)), Tail(row))

\* lines 178-183: date_val.startswith raises AttributeError unless date_val
\* is a string
ResolveDateRaises(date_val) == Truthy(date_val) /\ date_val.t # "str"

\* the default of line 179 left out
ResolveDateNoDefault(date_val, yr) ==
    IF ~Truthy(date_val) THEN date_val
    ELSE IF ~StartsWith(date_val.s, yr)
            /\ (Contains(<<"/">>, date_val.s) \/ Contains(<<"-">>, date_val.s))
         THEN PyStr(yr \o <<"-">> \o date_val.s)
         ELSE date_val

\* the repair of lines 180-183 left out
ResolveDateNoRepair(date_val, yr) ==
    IF ~Truthy(date_val) THEN PyStr(yr \o <<"-", "0", "1", "-", "0", "1">>)
    ELSE date_val

\* lines 177-183
ResolveDate(date_val, yr) ==
    IF ~Truthy(date_val) THEN PyStr(yr \o <<"-", "0", "1", "-", "0", "1">>)
    ELSE IF ~StartsWith(date_val.s, yr)
            /\ (Contains(<<"/">>, date_val.s) \/ Contains(<<"-">>, date_val.s))
         THEN PyStr(yr \o <<"-">> \o date_val.s)
         ELSE date_val

\* the locals initialised once, before the loop
RowInitCarried(prev) == prev

\* lines 143-146 sit inside the loop: every row starts from the defaults,
\* whatever the previous row left in the locals
RowInit(prev) == RowDefaults

\* lines 177-190: the record appended for a row
RowRecord(acc, yr) ==
    Expense(ResolveDate(acc.date_val, yr), acc.category_val,
            acc.description_val, acc.amount_val)

\* the locals as the row leaves them
RowLocals(acc, yr) == [acc EXCEPT !.date_val = ResolveDate(acc.date_val, yr)]

\* lines 141-190 from the row whose locals are acc: the records appended by
\* the loop, up to the first row whose body raises
RECURSIVE MockLoop(_, _, _)
MockFrom(acc, rest, yr) ==
    IF ResolveDateRaises(acc.date_val) THEN <<>>
    ELSE <<RowRecord(acc, yr)>> \o MockLoop(rest, yr, RowLocals(acc, yr))

MockLoop(rows, yr, prev) ==
    IF rows = <<>> THEN <<>>
    ELSE MockFrom(ClassifyRow(RowInit(prev), Head(rows)), Tail(rows), yr)

RECURSIVE MockLoopRaises(_, _, _)
MockFromRaises(acc, rest, yr) ==
    \/ ResolveDateRaises(acc.date_val)
    \/ MockLoopRaises(rest, yr, RowLocals(acc, yr))

MockLoopRaises(rows, yr, prev) ==
    IF rows = <<>> THEN FALSE
    ELSE MockFromRaises(ClassifyRow(RowInit(prev), Head(rows)), Tail(rows), yr)

MockRaises(rows, yr) == MockLoopRaises(rows, yr, RowDefaults)

PyList(items) == [t |-> "list", items |-> items]

\* _mock_normalize_expense_data(raw_data, year)
MockNormalize(rows, yr) == PyList(MockLoop(rows, yr, RowDefaults))

\* ------------------------------------------------------------------------
\* Inputs of the normalizer
\* ------------------------------------------------------------------------
MaxRows == 2      \* rows in raw_data
MaxCells == 2     \* cells in raw_data, all rows together

Cell(k, v) == [key |-> k, value |-> v]

\* Spreadsheet cells as pandas hands them over: column name and value
Cells ==
    {Cell(<<"U", "n", "k", "n", "o", "w", "n">>, PyStr(<<"x">>)),
     Cell(<<"D", "a", "t", "e">>, PyStr(<<"J", "a", "n", " ", "5">>)),
     Cell(<<"D", "a", "t", "e">>, PyStr(<<"1", "/", "5">>)),
     Cell(<<"D", "a", "t", "e">>, PyStr(<<"2", "0", "2", "3", "-", "0", "1", "-", "1", "0">>)),
     Cell(<<"T", "i", "m", "e">>, PyTimestamp(20240106)),
     Cell(<<"D", "a", "y">>, PyFloat(500)),
     Cell(<<"D", "a", "t", "e">>, PyNaT),
     Cell(<<"A", "m", "o", "u", "n", "t">>, PyStr(<<"R", "M", " ", "1", ",", "2", "3", "4", ".", "5", "0">>)),
     Cell(<<"C", "o", "s", "t">>, PyFloat(-500)),
     Cell(<<"R", "M">>, PyStr(<<"a", "b", "c">>)),
     Cell(<<"I", "t", "e", "m">>, PyStr(<<"L", "u", "n", "c", "h">>)),
     Cell(<<"T", "y", "p", "e">>, PyNone),
     Cell(<<"T", "o", "t", "a", "l">>, PyNaN)}

Years == {<<"2", "0", "2", "3">>, <<"2", "0", "2", "4">>}

RowKeys(row) == {row[i].key : i \in 1..Len(row)}

\* dicts of exactly k cells: keys are unique, insertion order is kept
RECURSIVE RowsOfLen(_)
RowsOfLen(k) ==
    IF k = 0 THEN {<<>>}
    ELSE {Append(p[1], p[2]) :
            p \in {q \in RowsOfLen(k - 1) \X Cells : q[2].key \notin RowKeys(q[1])}}

RowsUpTo(c) == UNION {RowsOfLen(k) : k \in 0..c}

\* lists of at most r rows holding at most c cells
RECURSIVE Inputs(_, _)
Inputs(r, c) ==
    IF r = 0 THEN {<<>>}
    ELSE {<<>>} \cup
         UNION {{<<row>> \o rest : rest \in Inputs(r - 1, c - Len(row))} :
                  row \in RowsUpTo(c)}

NoResult == [t |-> "unset", items |-> <<>>]
pipeline == <<GEMINI_API_KEY, raw_data, year, pc, remote, http_calls, raised, result>>
storage ==
    <<backend, db_ok, store, before, call, ret, commits, handed, query,
      expenses, reply, race>>
vars == <<pipeline, storage>>

NoCall == [year |-> <<>>, expense_data |-> <<>>, source_file |-> ""]
NoRet ==
    [path |-> "none", imported |-> 0, skipped |-> 0, status |-> "",
     errors |-> <<>>, message |-> ""]
NoLimit == -1     \* limit = None
NoQuery == [year |-> <<>>, limit |-> NoLimit]

\* the filters of search_expenses, all omitted
NoFilter ==
    [year |-> PyNone, category |-> PyNone, date_from |-> PyNone,
     date_to |-> PyNone, min_amount |-> PyNone, max_amount |-> PyNone]

\* the zeroed structure of get_year_statistics, firestore_db.py:158-164
Zeroed ==
    [total_expenses |-> 0, total_amount |-> 0, by_category |-> <<>>,
     by_month |-> <<>>]

\* what an operation other than save and get gave its caller: outcome is
\* what its store calls did, raised is TRUE iff it let an exception escape
\* instead of returning
Reply(op, yr, filter, outcome, raised_, status, deleted, years, stats, found) ==
    [op |-> op, year |-> yr, filter |-> filter, outcome |-> outcome,
     raised |-> raised_, status |-> status, deleted |-> deleted,
     years |-> years, stats |-> stats, found |-> found]

NoReply == Reply("none", <<>>, NoFilter, "ok", FALSE, "", 0, <<>>, Zeroed, <<>>)

\* no request is inside a storage operation.  Of the save in progress:
\* its position, its call and what it will have done once it commits.  Of the delete in progress or returned: its position and
\* year, the count it read, the positions it streamed, the number of
\* records of the year when it started, how many records it removed, how
\* many of those of the start are left, and the result it returned.
NoRace ==
    [spc |-> "idle", scall |-> NoCall,
     out |-> [ret |-> NoRet, persisted |-> <<>>, commits |-> <<>>],
     dpc |-> "idle", dyear |-> <<>>, count |-> 0, streamed |-> {},
     atstart |-> 0, removed |-> 0, left |-> 0, deleted |-> 0, status |-> ""]

\* no storage operation has run
StorageIdle ==
    /\ backend = "sqlite"
    /\ db_ok = TRUE
    /\ store = <<>>
    /\ before = <<>>
    /\ call = NoCall
    /\ ret = NoRet
    /\ commits = <<>>
    /\ handed = 0
    /\ query = NoQuery
    /\ expenses = <<>>
    /\ reply = NoReply
    /\ race = NoRace

\* ------------------------------------------------------------------------
\* The heuristic normalizer applied to every input
\* ------------------------------------------------------------------------
InitMock ==
    /\ raw_data \in Inputs(MaxRows, MaxCells)
    /\ year \in Years
    /\ GEMINI_API_KEY = <<>>
    /\ pc = "start"
    /\ remote = [kind |-> "none", pre |-> <<>>,
                 json |-> [t |-> "invalid", items |-> <<>>], post |-> <<>>]
    /\ http_calls = 0
    /\ raised = FALSE
    /\ result = NoResult
    /\ StorageIdle

\* the call ends: it raised, or returned value
MockReturns(raises, value) ==
    /\ pc' = "done"
    /\ raised' = raises
    /\ result' = IF raises THEN NoResult ELSE value
    /\ UNCHANGED <<GEMINI_API_KEY, raw_data, year, remote, http_calls, storage>>

\* result = _mock_normalize_expense_data(raw_data, year)
CallMock ==
    /\ pc = "start"
    /\ MockReturns(MockRaises(raw_data, year), MockNormalize(raw_data, year))

NextMock == CallMock

SpecMock == InitMock /\ [][NextMock]_vars

\* ------------------------------------------------------------------------
\* Remote normalizer adapter (normalize_expense_data)
\* ------------------------------------------------------------------------
MaxRawLen == 6       \* rows handed to the adapter
MaxRemoteLen == 2    \* elements of an array answered by the remote service

\* ai_parser.py:45, raw_data[:5]
SampleSize == 5

Absent == [t |-> "absent", n |-> 0, s |-> <<>>]

\* An element that is not a dict holding the four fields: `has` is the set
\* of field names x for which `x in item` is true (keys of a dict,
\* substrings of a str, members of a list)
Item(t, has) ==
    [t |-> t, has |-> has,
     date |-> IF t = "dict" /\ "date" \in has THEN PyStr(<<"2", "0", "2", "3", "-", "0", "1", "-", "0", "5">>) ELSE Absent,
     category |-> IF t = "dict" /\ "category" \in has THEN PyStr(<<"F", "o", "o", "d">>) ELSE Absent,
     description |-> IF t = "dict" /\ "description" \in has THEN PyStr(<<"L", "u", "n", "c", "h">>) ELSE Absent,
     amount |-> IF t = "dict" /\ "amount" \in has THEN PyFloat(2550) ELSE Absent]

\* Elements a completion can carry
RemoteItems ==
    {Item("dict", Fields),
     Item("dict", Fields \ {"amount"}),
     Item("str", Fields),
     Item("float", {})}

\* A parsed JSON document: `items` is what iterating it yields (elements of
\* a list, keys of a dict, characters of a str)
Json(t, items) == [t |-> t, items |-> items]

RECURSIVE SeqsUpTo(_, _)
SeqsUpTo(S, n) ==
    IF n = 0 THEN {<<>>}
    ELSE SeqsUpTo(S, n - 1) \cup
         {Append(q[1], q[2]) : q \in {w \in SeqsUpTo(S, n - 1) \X S : Len(w[1]) = n - 1}}

\* text that is not JSON at all
NotJson == Json("invalid", <<>>)

JsonBodies ==
    {Json("list", items) : items \in SeqsUpTo(RemoteItems, MaxRemoteLen)}
    \cup {Json("dict", <<>>),
          Json("dict", <<Item("str", {})>>),
          Json("dict", <<Item("str", Fields)>>),
          Json("str", <<>>),
          Json("str", <<Item("str", {})>>),
          Json("float", <<>>),
          Json("none", <<>>),
          NotJson}

\* the backquote character, which a TLA+ string literal cannot hold
BQ == "bq"

Fences == {<<>>, <<BQ, BQ, BQ, "j", "s", "o", "n">>, <<BQ, BQ, BQ>>, <<BQ, BQ, BQ, "p", "y", "t", "h", "o", "n">>}

Outcome(kind, pre, json, post) ==
    [kind |-> kind, pre |-> pre, json |-> json, post |-> post]

\* documents that are also answered inside code fences
FencedBodies == {Json("list", <<Item("dict", Fields)>>), Json("dict", <<>>)}

\* What the remote service can do with one POST: fail, or answer a text
\* that is a bare document or a document with something around it
RemoteOutcomes ==
    {Outcome(k, <<>>, NotJson, <<>>) :
        k \in {"transport_error", "status_500", "body_not_json",
               "no_candidates", "bad_candidate_shape"}}
    \cup {Outcome("text", <<>>, j, <<>>) : j \in JsonBodies}
    \cup {Outcome("text", pre, j, post) :
            pre \in Fences, j \in FencedBodies, post \in {<<>>, <<BQ, BQ, BQ>>}}

\* json.dumps raises TypeError on a pandas Timestamp or NaT
Serializable(v) == v.t \notin {"timestamp", "nat"}

\* line 45: json.dumps(raw_data[:5], indent=2)
PromptRaises(rows) ==
    \E i \in 1..Len(rows) :
        /\ i <= SampleSize
        /\ \E j \in 1..Len(rows[i]) : ~Serializable(rows[i][j].value)

\* lines 101-104: text[len(fence):] if text.startswith(fence)
DropPrefix(text, fence) ==
    IF StartsWith(text, fence) THEN SubSeq(text, Len(fence) + 1, Len(text)) ELSE text

\* lines 105-106: text[:-3] if text.endswith(fence)
DropSuffix(text, fence) ==
    IF Len(text) >= Len(fence) /\ SubSeq(text, Len(text) - Len(fence) + 1, Len(text)) = fence
    THEN SubSeq(text, 1, Len(text) - Len(fence)) ELSE text

\* lines 100-107: what is left in front of and behind the document
FenceStrippedPre(pre) ==
    Strip(DropPrefix(DropPrefix(Strip(pre), <<BQ, BQ, BQ, "j", "s", "o", "n">>),
                     <<BQ, BQ, BQ>>))

FenceStrippedPost(post) == Strip(DropSuffix(Strip(post), <<BQ, BQ, BQ>>))

\* line 110: json.loads raises unless the stripped text is one document
LoadsRaises(o) ==
    \/ o.json = NotJson
    \/ FenceStrippedPre(o.pre) # <<>>
    \/ FenceStrippedPost(o.post) # <<>>

\* `key in item` raises TypeError on a number or None
InRaises(item) == item.t \notin {"dict", "str", "list"}

\* lines 113-115: the validation loop raises
ValidationRaises(j) ==
    \/ j.t \notin {"list", "dict", "str"}
    \/ \E i \in 1..Len(j.items) :
          InRaises(j.items[i]) \/ ~(Fields \subseteq j.items[i].has)

\* line 117: the value returned when nothing was raised
Returned(j) == j

Min(a, b) == IF a < b THEN a ELSE b

\* the heuristic normalizer applied to the sample of the prompt
FallbackOnSample(rows, yr) ==
    MockNormalize(SubSeq(rows, 1, Min(SampleSize, Len(rows))), yr)

\* lines 34, 91, 120, 125: _mock_normalize_expense_data(raw_data, year)
Fallback(rows, yr) == MockNormalize(rows, yr)

\* lines 32-45: the call goes out iff the credential is set and the prompt
\* could be built
CallsRemote(rows, key) == key # <<>> /\ ~PromptRaises(rows)

\* lines 89-91, 96, 118-125: the answer makes the call fall back: a post
\* that raised, a status other than 200, a body that is not JSON, no
\* candidates, a candidate without content.parts[0].text, a text
\* json.loads rejects, a document the validation loop rejects
AnswerFallsBack(o) ==
    \/ o.kind \in {"transport_error", "status_500", "body_not_json",
                   "no_candidates", "bad_candidate_shape"}
    \/ LoadsRaises(o)
    \/ ValidationRaises(o.json)

\* what the call does, given whether the request went out and whether the
\* heuristic normalizer takes over
NormalizeResult(called, falls, rows, yr, o) ==
    [calls |-> IF called THEN 1 ELSE 0,
     fallback |-> falls,
     raised |-> falls /\ MockRaises(rows, yr),
     value |-> IF falls THEN Fallback(rows, yr) ELSE Returned(o.json)]

\* the heuristic normalizer takes over: lines 32-34, or an exception raised
\* in the try block, or the answer
FallsBack(called, o) == ~called \/ AnswerFallsBack(o)

\* lines 32-125.  calls: POSTs issued; fallback: the heuristic normalizer
\* produced the value; raised: an exception left the function; value: what
\* is returned
NormalizeExpenseData(rows, yr, key, o) ==
    NormalizeResult(CallsRemote(rows, key), FallsBack(CallsRemote(rows, key), o),
                    rows, yr, o)

PlainRow == <<Cell(<<"I", "t", "e", "m">>, PyStr(<<"T", "e", "a">>))>>
StampedRow == <<Cell(<<"D", "a", "y">>, PyTimestamp(20230106))>>

\* row lists of the adapter: plain rows with at most one row json.dumps
\* cannot serialize
AdapterInputs ==
    {r \in SeqsUpTo({PlainRow, StampedRow}, MaxRawLen) :
        Cardinality({i \in 1..Len(r) : r[i] = StampedRow}) <= 1}

NoOutcome == Outcome("none", <<>>, NotJson, <<>>)

InitNorm ==
    /\ raw_data \in AdapterInputs
    /\ year \in Years
    /\ GEMINI_API_KEY \in {<<>>, <<"k", "e", "y">>}
    /\ pc = "start"
    /\ remote = NoOutcome
    /\ http_calls = 0
    /\ raised = FALSE
    /\ result = NoResult
    /\ StorageIdle

\* the call ends with r, the remote service having done o
NormalizeEnds(r, o) ==
    /\ http_calls' = r.calls
    /\ remote' = o
    /\ raised' = r.raised
    /\ result' = r.value

NormalizeReturns(o) ==
    NormalizeEnds(NormalizeExpenseData(raw_data, year, GEMINI_API_KEY, o), o)

\* result = await normalize_expense_data(raw_data, year); the remote
\* service answers only when it is called
Normalize ==
    /\ pc = "start"
    /\ \/ /\ ~CallsRemote(raw_data, GEMINI_API_KEY)
          /\ NormalizeReturns(NoOutcome)
       \/ /\ CallsRemote(raw_data, GEMINI_API_KEY)
          /\ \E o \in RemoteOutcomes : NormalizeReturns(o)
    /\ pc' = "done"
    /\ UNCHANGED <<GEMINI_API_KEY, raw_data, year, storage>>

NextNorm == Normalize

SpecNorm == InitNorm /\ [][NextNorm]_vars

\* ------------------------------------------------------------------------
\* The storage backends: services/sqlite_db.py and services/firestore_db.py
\* ------------------------------------------------------------------------
max_batch_size == 2   \* writes per batch; 500 at firestore_db.py:63
MaxErrors == 2        \* messages returned; 10 at sqlite_db.py:111, firestore_db.py:101
MaxSave == 3          \* records handed to one save_expenses
MaxStore == 3         \* records one behaviour hands to the store

D(s) == PyStr(s)

\* What a caller hands to save_expenses: normalized expenses, one of them
\* dated in another year and without category, and an element that is not
\* a dict (a completion that passed the key test as a string).
Lunch ==
    Expense(D(<<"2", "0", "2", "3", "-", "0", "1", "-", "1", "0">>),
            D(<<"F", "o", "o", "d">>), D(<<"L", "u", "n", "c", "h">>),
            PyFloat(1250))
Taxi ==
    Expense(D(<<"2", "0", "2", "4", "-", "0", "3", "-", "0", "5">>),
            PyNone, D(<<"T", "a", "x", "i">>), PyFloat(700))
NotADict == Item("str", Fields)

SaveRecords == {Lunch, Taxi, NotADict}
SaveInputs == SeqsUpTo(SaveRecords, MaxSave)
SourceFile == "bills.csv"

Take(s, n) == SubSeq(s, 1, Min(n, Len(s)))

\* the result dict of save_expenses; path is the return statement taken
Result(path, imported, skipped, status, errors, message) ==
    [path |-> path, imported |-> imported, skipped |-> skipped,
     status |-> status, errors |-> errors, message |-> message]

StatusAlwaysOk(imported_count) == "ok"

\* "ok" if imported_count > 0 else "error"
Status(imported_count) == IF imported_count > 0 THEN "ok" ELSE "error"

\* what a save_expenses call did: its result, the records it left in the
\* store and the commits it attempted
Saved(r, persisted, attempts) ==
    [ret |-> r, persisted |-> persisted, commits |-> attempts]

\* one batch.commit() / conn.commit(): the number of writes in it, whether
\* it succeeded, and how many writes the call had issued by then, so that
\* the commit carries the writes upto - size + 1 .. upto of the call
Attempt(size, ok, upto) == [size |-> size, ok |-> ok, upto |-> upto]

\* a stored record: the four fields and the metadata stamped on it (the
\* backend-assigned id and the imported_at clock reading are left out)
Stored(yr, file, has, d, c, ds, a) ==
    [year |-> yr, source_file |-> file, has |-> has,
     date |-> d, category |-> c, description |-> ds, amount |-> a]

\* the locals of save_expenses while it loops; batch holds the writes not
\* yet committed (the open transaction of the relational backend)
Locals0 ==
    [imported_count |-> 0, skipped_count |-> 0, errors |-> <<>>,
     batch |-> <<>>, batch_size |-> 0, persisted |-> <<>>, commits |-> <<>>]

\* the per-record handler: skipped_count += 1; errors.append(...)
Handler(st, msg) ==
    [st EXCEPT !.skipped_count = @ + 1, !.errors = Append(@, msg)]

\* ---- SQLiteDatabase.save_expenses, sqlite_db.py:59-123 ----

\* expense.get(field)
Get(expense, field) == IF field \in expense.has THEN expense[field] ELSE PyNone

\* sqlite3 binds None and nan as NULL; a str goes into a TEXT column and a
\* float into a REAL column as they are
Bind(v) == IF v.t \in {"none", "nan", "absent"} THEN PyNone ELSE v

\* lines 90-99: the parameter tuple raises (no .get on the element, or
\* json.dumps(expense) meets a value it cannot serialize)
TupleRaises(expense) ==
    \/ expense.t # "dict"
    \/ \E f \in expense.has : ~Serializable(expense[f])

\* the partition taken from the date of the expense
RowByDate(yr, file, expense) ==
    Stored(SubSeq(expense.date.s, 1, 4), file, Fields,
           Bind(Get(expense, "date")), Bind(Get(expense, "category")),
           Bind(Get(expense, "description")), Bind(Get(expense, "amount")))

\* lines 91-96: the row INSERTed for an expense
Row(yr, file, expense) ==
    Stored(yr, file, Fields,
           Bind(Get(expense, "date")), Bind(Get(expense, "category")),
           Bind(Get(expense, "description")), Bind(Get(expense, "amount")))

\* lines 86-100: INSERT of one row inside the open transaction
Insert(st, row) ==
    IF row.date.t = "none"
    THEN Handler(st, "NOT NULL constraint failed: expenses.date")
    ELSE IF row.amount.t = "none"
    THEN Handler(st, "NOT NULL constraint failed: expenses.amount")
    ELSE [st EXCEPT !.batch = Append(@, row), !.imported_count = @ + 1]

\* lines 85-103: the body of the loop for one expense
SqlRecord(st, expense, yr, file) ==
    IF TupleRaises(expense)
    THEN Handler(st, "Error saving expense")
    ELSE Insert(st, Row(yr, file, expense))

RECURSIVE SqlLoop(_, _, _, _)
SqlLoop(st, data, yr, file) ==
    IF data = <<>> THEN st
    ELSE SqlLoop(SqlRecord(st, Head(data), yr, file), Tail(data), yr, file)

\* lines 105-112: commit succeeded
SqlNormal(st) ==
    Saved(Result("normal", st.imported_count, st.skipped_count,
                 Status(st.imported_count), Take(st.errors, MaxErrors), ""),
          st.batch, <<Attempt(Len(st.batch), TRUE, st.imported_count)>>)

\* the rows written before the failing commit are kept
SqlFatalKeepsRows(st, n) ==
    Saved(Result("fatal", st.imported_count, n - st.imported_count,
                 "error", <<>>, "commit failed"),
          st.batch, <<Attempt(Len(st.batch), FALSE, st.imported_count)>>)

\* lines 114-121: commit raised; conn.rollback() drops the transaction
SqlFatal(st, n) ==
    Saved(Result("fatal", st.imported_count, n - st.imported_count,
                 "error", <<>>, "commit failed"),
          <<>>, <<Attempt(Len(st.batch), FALSE, st.imported_count)>>)

SqlEnd(st, n, commit_fails) ==
    IF commit_fails THEN SqlFatal(st, n) ELSE SqlNormal(st)

SqlSave(yr, data, file, commit_fails) ==
    SqlEnd(SqlLoop(Locals0, data, yr, file), Len(data), commit_fails)

\* ---- FirestoreDatabase.save_expenses, firestore_db.py:31-110 ----

\* lines 69-74: {**expense, "year": year, "source_file": source_file, ...}
Doc(yr, file, expense) ==
    Stored(yr, file, expense.has, expense.date, expense.category,
           expense.description, expense.amount)

\* batch.commit(): the writes of the batch sent as one atomic unit
Commit(st, ok) ==
    [st EXCEPT !.commits = Append(@, Attempt(Len(st.batch), ok, st.imported_count)),
               !.persisted = IF ok THEN @ \o st.batch ELSE @]

\* lines 86-87: batch = self.db.batch(); batch_size = 0
NewBatch(st) == [st EXCEPT !.batch = <<>>, !.batch_size = 0]

\* lines 84-91: the commit inside the loop; when it raises the handler
\* runs and batch and batch_size stay as they are
CommitInLoop(st, fails) ==
    IF fails[Len(st.commits) + 1]
    THEN Handler(Commit(st, FALSE), "commit failed")
    ELSE NewBatch(Commit(st, TRUE))

\* line 84
Flush(st, fails) ==
    IF st.batch_size >= max_batch_size THEN CommitInLoop(st, fails) ELSE st

\* lines 78-81: batch.set(...); batch_size += 1; imported_count += 1
Set(st, doc) ==
    [st EXCEPT !.batch = Append(@, doc), !.batch_size = @ + 1,
               !.imported_count = @ + 1]

\* lines 67-91: the body of the loop for one expense
FsRecord(st, expense, yr, file, fails) ==
    IF expense.t # "dict"
    THEN Handler(st, "object is not a mapping")
    ELSE Flush(Set(st, Doc(yr, file, expense)), fails)

RECURSIVE FsLoop(_, _, _, _, _)
FsLoop(st, data, yr, file, fails) ==
    IF data = <<>> THEN st
    ELSE FsLoop(FsRecord(st, Head(data), yr, file, fails), Tail(data),
                yr, file, fails)

\* lines 97-102
FsNormal(st) ==
    Saved(Result("normal", st.imported_count, st.skipped_count,
                 Status(st.imported_count), Take(st.errors, MaxErrors), ""),
          st.persisted, st.commits)

\* lines 104-110
FsFatal(st, n) ==
    Saved(Result("fatal", st.imported_count, n - st.imported_count,
                 "error", <<>>, "commit failed"),
          st.persisted, st.commits)

\* lines 93-95: commit remaining items
FsEnd(st, n, fails) ==
    IF st.batch_size > 0
    THEN IF fails[Len(st.commits) + 1]
         THEN FsFatal(Commit(st, FALSE), n)
         ELSE FsNormal(Commit(st, TRUE))
    ELSE FsNormal(st)

\* lines 49-55: the client was never initialized
FsNoClient(n) ==
    Saved(Result("no_client", 0, n, "error", <<>>,
                 "Firestore client not initialized"), <<>>, <<>>)

FsSave(yr, data, file, fails) ==
    FsEnd(FsLoop(Locals0, data, yr, file, fails), Len(data), fails)

\* ---- get_expenses_by_year ----

\* the characters of the stored dates, in the order the engine compares them
Collation ==
    <<" ", "-", "/", "0", "1", "2", "3", "4", "5", "6", "7", "8", "9", ":">>

Ord(c) == CHOOSE i \in 1..Len(Collation) : Collation[i] = c

\* a < b as TEXT values
RECURSIVE StrLess(_, _)
StrLess(a, b) ==
    IF b = <<>> THEN FALSE
    ELSE IF a = <<>> THEN TRUE
    ELSE IF a[1] = b[1] THEN StrLess(Tail(a), Tail(b))
    ELSE Ord(a[1]) < Ord(b[1])

\* the positions in the store of the records of one year
Partition(db, yr) == {i \in 1..Len(db) : db[i].year = yr}

\* the ways of listing the positions I
Orders(I) ==
    {f \in [1..Cardinality(I) -> I] :
        \A a, b \in 1..Cardinality(I) : a # b => f[a] # f[b]}

\* ORDER BY date DESC
DateDescending(db, f) ==
    \A a, b \in DOMAIN f : a < b => ~StrLess(db[f[a]].date.s, db[f[b]].date.s)

\* `if limit:` then LIMIT / .limit(limit)
Limited(s, limit) == IF limit # NoLimit /\ limit # 0 THEN Take(s, limit) ELSE s

Listed(db, f) == [i \in DOMAIN f |-> db[f[i]]]

Limits == {NoLimit, 0, 1}

\* ---- the operations ----
InitStore ==
    /\ GEMINI_API_KEY = <<>>
    /\ raw_data = <<>>
    /\ year = <<>>
    /\ pc = "idle"
    /\ remote = NoOutcome
    /\ http_calls = 0
    /\ raised = FALSE
    /\ result = NoResult
    /\ backend \in {"sqlite", "firestore"}
    /\ db_ok \in BOOLEAN
    /\ backend = "sqlite" => db_ok
    /\ store = <<>>
    /\ before = <<>>
    /\ call = NoCall
    /\ ret = NoRet
    /\ commits = <<>>
    /\ handed = 0
    /\ query = NoQuery
    /\ expenses = <<>>
    /\ reply = NoReply
    /\ race = NoRace

\* the writes a call puts into batches
Writes(data) == Cardinality({i \in 1..Len(data) : data[i].t = "dict"})

\* the commits a call can attempt: one for each write from the one that
\* fills the first batch on, and the one after the loop
Attempts(data) ==
    IF Writes(data) < max_batch_size THEN 1
    ELSE Writes(data) - max_batch_size + 2

\* save_expenses returns
SaveReturns(yr, data, out) ==
    /\ store' = store \o out.persisted
    /\ handed' = handed + Len(data)
    /\ before' = store
    /\ call' = [year |-> yr, expense_data |-> data, source_file |-> SourceFile]
    /\ ret' = out.ret
    /\ commits' = out.commits
    /\ query' = NoQuery
    /\ expenses' = <<>>
    /\ reply' = NoReply
    /\ UNCHANGED <<pipeline, backend, db_ok, race>>

\* SQLiteDatabase.save_expenses(year, expense_data, source_file); the
\* commit succeeds or raises
SQLiteSaveExpenses ==
    /\ backend = "sqlite"
    /\ \E yr \in Years, data \in SaveInputs, commit_fails \in BOOLEAN :
          /\ handed + Len(data) <= MaxStore
          /\ SaveReturns(yr, data, SqlSave(yr, data, SourceFile, commit_fails))

\* FirestoreDatabase.save_expenses(year, expense_data, source_file); each
\* commit it attempts succeeds or raises
FirestoreSaveExpenses ==
    /\ backend = "firestore"
    /\ \E yr \in Years, data \in SaveInputs :
          /\ handed + Len(data) <= MaxStore
          /\ \/ /\ ~db_ok
                /\ SaveReturns(yr, data, FsNoClient(Len(data)))
             \/ /\ db_ok
                /\ \E fails \in [1..Attempts(data) -> BOOLEAN] :
                      SaveReturns(yr, data, FsSave(yr, data, SourceFile, fails))

\* get_expenses_by_year returns
GetReturns(yr, limit, found) ==
    /\ query' = [year |-> yr, limit |-> limit]
    /\ expenses' = found
    /\ reply' = IF reply.op = "delete" THEN reply ELSE NoReply
    /\ UNCHANGED <<pipeline, backend, db_ok, store, before, call, ret, commits,
                   handed, race>>

\* SQLiteDatabase.get_expenses_by_year(year, limit), sqlite_db.py:125-161;
\* records of equal date come in any order
SQLiteGetExpensesByYear ==
    /\ backend = "sqlite"
    /\ \E yr \in Years, limit \in Limits :
          \E f \in Orders(Partition(store, yr)) :
             /\ DateDescending(store, f)
             /\ GetReturns(yr, limit, Limited(Listed(store, f), limit))

\* FirestoreDatabase.get_expenses_by_year(year, limit),
\* firestore_db.py:112-139; the stream is ordered by the generated ids
FirestoreGetExpensesByYear ==
    /\ backend = "firestore"
    /\ \E yr \in Years, limit \in Limits :
          \/ /\ ~db_ok
             /\ GetReturns(yr, limit, <<>>)
          \/ /\ db_ok
             /\ \E f \in Orders(Partition(store, yr)) :
                   GetReturns(yr, limit, Limited(Listed(store, f), limit))

NextStore ==
    \/ SQLiteSaveExpenses
    \/ FirestoreSaveExpenses
    \/ SQLiteGetExpensesByYear
    \/ FirestoreGetExpensesByYear

SpecStore == InitStore /\ [][NextStore]_vars

\* ------------------------------------------------------------------------
\* Deleting, listing, aggregating and searching: the other operations of
\* services/sqlite_db.py and services/firestore_db.py
\* ------------------------------------------------------------------------
delete_limit == 2     \* records one delete reads; 500 at firestore_db.py:242

\* More of what a caller hands to save_expenses: an expense whose category
\* is the empty string and one whose amount is null.
Blank ==
    Expense(D(<<"2", "0", "2", "3", "-", "0", "2", "-", "2", "0">>),
            D(<<>>), D(<<"M", "i", "s", "c">>), PyFloat(300))
Owed ==
    Expense(D(<<"2", "0", "2", "3", "-", "0", "2", "-", "0", "7">>),
            D(<<"F", "o", "o", "d">>), D(<<"O", "w", "e", "d">>), PyNone)

\* the uploads of a behaviour: one expense, one without amount, two
\* without category, and a file of one expense repeated
LifeInputs ==
    {<<Lunch>>, <<Owed>>, <<Taxi, Blank>>, [i \in 1..MaxSave |-> Lunch]}

\* the store without the records at the positions S
Without(db, S) ==
    LET F[i \in 0..Len(db)] ==
            IF i = 0 THEN <<>>
            ELSE IF i \in S THEN F[i - 1] ELSE Append(F[i - 1], db[i])
    IN  F[Len(db)]

\* The outcome of the calls an operation makes on its store: "ok" when all
\* succeed, "connect" when the connection cannot be opened, "statement"
\* when a read or a commit raises, "after" when the call made after the
\* commit raises, "no_client" when there is no client to call.
\* ---- delete_expenses_by_year ----

\* a delete returns or raises: the store it leaves and what the caller gets
Deleted(yr, left, outcome, raised_, status, deleted) ==
    [left |-> left,
     reply |-> Reply("delete", yr, NoFilter, outcome, raised_, status, deleted,
                     <<>>, Zeroed, <<>>)]

\* the DELETE without its WHERE clause
SqlDeleteEveryYear(db, yr, outcome) ==
    IF outcome = "connect" THEN Deleted(yr, db, outcome, TRUE, "", 0)
    ELSE IF outcome = "statement"
    THEN Deleted(yr, db, outcome, FALSE, "error", 0)
    ELSE Deleted(yr, <<>>, outcome, FALSE, "ok",
                 Cardinality(Partition(db, yr)))

\* sqlite_db.py:239-267: _get_connection() is outside the try; inside it
\* SELECT COUNT(*), DELETE ... WHERE year = ?, commit
SqlDelete(db, yr, outcome) ==
    IF outcome = "connect" THEN Deleted(yr, db, outcome, TRUE, "", 0)
    ELSE IF outcome = "statement"
    THEN Deleted(yr, db, outcome, FALSE, "error", 0)
    ELSE Deleted(yr, Without(db, Partition(db, yr)), outcome, FALSE, "ok",
                 Cardinality(Partition(db, yr)))

\* firestore_db.py:242: the records expenses_ref.limit(500).stream() can
\* yield, S being the ones it does
Streamed(db, yr, S) ==
    /\ S \subseteq Partition(db, yr)
    /\ Cardinality(S) = Min(delete_limit, Cardinality(Partition(db, yr)))

\* firestore_db.py:227-264: one batch of deletes, one commit, then the
\* delete of the year document; any of them raising gives deleted 0
FsDelete(db, yr, S, outcome) ==
    IF outcome = "ok"
    THEN Deleted(yr, Without(db, S), outcome, FALSE, "ok", Cardinality(S))
    ELSE IF outcome = "after"
    THEN Deleted(yr, Without(db, S), outcome, FALSE, "error", 0)
    ELSE Deleted(yr, db, outcome, FALSE, "error", 0)

\* firestore_db.py:229-234
FsDeleteNoClient(db, yr) == Deleted(yr, db, "no_client", FALSE, "error", 0)

\* ---- get_all_years ----

EveryYear(db) == Years

\* SELECT DISTINCT year; the year documents list_documents() yields, which
\* are the ones that have records beneath them
DistinctYears(db) == {db[i].year : i \in DOMAIN db}

\* ORDER BY year DESC; sorted(years, reverse=True)
Descending(S) ==
    CHOOSE f \in Orders(S) : \A a, b \in DOMAIN f : a < b => StrLess(f[b], f[a])

Listing(outcome, raised_, years) ==
    Reply("years", <<>>, NoFilter, outcome, raised_, "", 0, years, Zeroed, <<>>)

\* sqlite_db.py:163-177, nothing is caught
SqlYears(db, outcome) ==
    IF outcome = "ok" THEN Listing(outcome, FALSE, Descending(DistinctYears(db)))
    ELSE Listing(outcome, TRUE, <<>>)

\* firestore_db.py:141-153
FsYears(db, outcome) ==
    IF outcome = "ok" THEN Listing(outcome, FALSE, Descending(DistinctYears(db)))
    ELSE Listing(outcome, FALSE, <<>>)

\* ---- the operations ----

\* an operation of the relational backend raises at _get_connection() or,
\* a read, at a statement: nothing is stored and nothing is returned
Raises(op, yr, filter) ==
    /\ reply' = Reply(op, yr, filter, "connect", TRUE, "", 0, <<>>, Zeroed, <<>>)
    /\ before' = store
    /\ call' = NoCall
    /\ ret' = NoRet
    /\ commits' = <<>>
    /\ query' = NoQuery
    /\ expenses' = <<>>
    /\ UNCHANGED <<pipeline, backend, db_ok, store, handed, race>>

\* SQLiteDatabase.save_expenses on the inputs above; sqlite_db.py:76, the
\* connection is opened before the try
SQLiteSaveLife ==
    /\ backend = "sqlite"
    /\ \E yr \in Years, data \in LifeInputs :
          /\ handed + Len(data) <= MaxStore
          /\ \/ \E commit_fails \in BOOLEAN :
                   SaveReturns(yr, data, SqlSave(yr, data, SourceFile, commit_fails))
             \/ Raises("save", yr, NoFilter)

\* FirestoreDatabase.save_expenses on the inputs above
FirestoreSaveLife ==
    /\ backend = "firestore"
    /\ \E yr \in Years, data \in LifeInputs :
          /\ handed + Len(data) <= MaxStore
          /\ \/ /\ ~db_ok
                /\ SaveReturns(yr, data, FsNoClient(Len(data)))
             \/ /\ db_ok
                /\ \E fails \in [1..Attempts(data) -> BOOLEAN] :
                      SaveReturns(yr, data, FsSave(yr, data, SourceFile, fails))

\* get_expenses_by_year when a store call fails: sqlite_db.py:125-161
\* catches nothing, firestore_db.py:137-139 returns []
SQLiteGetFails ==
    /\ backend = "sqlite"
    /\ \E yr \in Years : Raises("get", yr, NoFilter)

FirestoreGetFails ==
    /\ backend = "firestore"
    /\ db_ok
    /\ \E yr \in Years, limit \in Limits : GetReturns(yr, limit, <<>>)

\* delete_expenses_by_year returns or raises
DeleteReturns(out) ==
    /\ store' = out.left
    /\ before' = store
    /\ reply' = out.reply
    /\ call' = NoCall
    /\ ret' = NoRet
    /\ commits' = <<>>
    /\ query' = NoQuery
    /\ expenses' = <<>>
    /\ UNCHANGED <<pipeline, backend, db_ok, handed, race>>

\* SQLiteDatabase.delete_expenses_by_year(year)
SQLiteDeleteExpensesByYear ==
    /\ backend = "sqlite"
    /\ \E yr \in Years, outcome \in {"ok", "connect", "statement"} :
          DeleteReturns(SqlDelete(store, yr, outcome))

\* FirestoreDatabase.delete_expenses_by_year(year)
FirestoreDeleteExpensesByYear ==
    /\ backend = "firestore"
    /\ \E yr \in Years :
          \/ /\ ~db_ok
             /\ DeleteReturns(FsDeleteNoClient(store, yr))
          \/ /\ db_ok
             /\ \E outcome \in {"ok", "statement", "after"},
                   S \in SUBSET Partition(store, yr) :
                   /\ Streamed(store, yr, S)
                   /\ DeleteReturns(FsDelete(store, yr, S, outcome))

\* a listing, an aggregate or a search returns or raises
ReadReplies(r) ==
    /\ reply' = r
    /\ before' = store
    /\ call' = NoCall
    /\ ret' = NoRet
    /\ commits' = <<>>
    /\ query' = NoQuery
    /\ expenses' = <<>>
    /\ UNCHANGED <<pipeline, backend, db_ok, store, handed, race>>

\* SQLiteDatabase.get_all_years()
SQLiteGetAllYears ==
    /\ backend = "sqlite"
    /\ \E outcome \in {"ok", "connect", "statement"} :
          ReadReplies(SqlYears(store, outcome))

\* FirestoreDatabase.get_all_years()
FirestoreGetAllYears ==
    /\ backend = "firestore"
    /\ \/ /\ ~db_ok
          /\ ReadReplies(Listing("no_client", FALSE, <<>>))
       \/ /\ db_ok
          /\ \E outcome \in {"ok", "statement"} :
                ReadReplies(FsYears(store, outcome))

NextLife ==
    \/ SQLiteSaveLife
    \/ FirestoreSaveLife
    \/ SQLiteGetExpensesByYear
    \/ FirestoreGetExpensesByYear
    \/ SQLiteGetFails
    \/ FirestoreGetFails
    \/ SQLiteDeleteExpensesByYear
    \/ FirestoreDeleteExpensesByYear
    \/ SQLiteGetAllYears
    \/ FirestoreGetAllYears

SpecLife == InitStore /\ [][NextLife]_vars

\* ------------------------------------------------------------------------
\* get_year_statistics
\* ------------------------------------------------------------------------
Uncategorized ==
    <<"U", "n", "c", "a", "t", "e", "g", "o", "r", "i", "z", "e", "d">>

\* row[0] or "Uncategorized"; exp.get("category") or "Uncategorized"
Label(v) == IF v.t = "str" /\ v.s # <<>> THEN v.s ELSE Uncategorized

\* SUM(amount) over the records at the positions S
RECURSIVE Total(_, _)
Total(db, S) ==
    IF S = {} THEN 0
    ELSE Total(db, S \ {CHOOSE i \in S : TRUE})
         + db[CHOOSE i \in S : TRUE].amount.n

\* the category column of a group
OfGroup(db, g) == db[CHOOSE i \in g : TRUE].category

\* one entry of by_category
CategoryEntry(db, g) ==
    [category |-> Label(OfGroup(db, g)), count |-> Cardinality(g),
     total |-> Total(db, g)]

\* ORDER BY SUM(amount) DESC; sorted(..., key=total, reverse=True)
TotalDescending(db, f) ==
    \A a, b \in DOMAIN f : a < b => Total(db, f[a]) >= Total(db, f[b])

ByCategory(db, f) == [j \in DOMAIN f |-> CategoryEntry(db, f[j])]

\* strftime('%Y-%m', date); date_str[:7]
Month(row) == SubSeq(row.date.s, 1, Min(7, Len(row.date.s)))

MonthEntry(db, g) ==
    [month |-> Month(db[CHOOSE i \in g : TRUE]), count |-> Cardinality(g),
     total |-> Total(db, g)]

\* ORDER BY month; sorted(month_stats.items())
MonthAscending(db, f) ==
    \A a, b \in DOMAIN f :
        a < b => StrLess(Month(db[CHOOSE i \in f[a] : TRUE]),
                         Month(db[CHOOSE i \in f[b] : TRUE]))

\* GROUP BY month; month_stats
MonthGroups(db, P) ==
    {{i \in P : Month(db[i]) = m} : m \in {Month(db[i]) : i \in P}}

ByMonth(db, G) ==
    [j \in 1..Cardinality(G) |->
        MonthEntry(db, (CHOOSE f \in Orders(G) : MonthAscending(db, f))[j])]

Statistics(yr, outcome, raised_, stats) ==
    Reply("stats", yr, NoFilter, outcome, raised_, "", 0, <<>>, stats, <<>>)

\* sqlite_db.py:194-198, GROUP BY category: one group for each value of
\* the column, NULL being a value of its own
SqlCategories(db, P) ==
    {{i \in P : db[i].category = c} : c \in {db[i].category : i \in P}}

\* firestore_db.py:178, the records are put together by their label
FsCategories(db, P) ==
    {{i \in P : Label(db[i].category) = c} :
        c \in {Label(db[i].category) : i \in P}}

\* the structure both return, f listing the category groups
Aggregated(db, yr, f) ==
    [total_expenses |-> Cardinality(Partition(db, yr)),
     total_amount |-> Total(db, Partition(db, yr)),
     by_category |-> ByCategory(db, f),
     by_month |-> ByMonth(db, MonthGroups(db, Partition(db, yr)))]

\* sqlite_db.py:179-237 when its statements succeed
SqlStatistics(db, yr, f) == Statistics(yr, "ok", FALSE, Aggregated(db, yr, f))

\* firestore_db.py:172, 182: 0 + amount raises for an amount that is not a
\* number
AmountsAdd(db, P) == \A i \in P : db[i].amount.t \in {"float", "absent"}

\* firestore_db.py:166-215 when its store calls succeed
FsStatistics(db, yr, f) ==
    IF AmountsAdd(db, Partition(db, yr))
    THEN Statistics(yr, "ok", FALSE, Aggregated(db, yr, f))
    ELSE Statistics(yr, "ok", FALSE, Zeroed)

\* ------------------------------------------------------------------------
\* search_expenses
\* ------------------------------------------------------------------------
Filter(yr, category, date_from, date_to, min_amount, max_amount) ==
    [year |-> yr, category |-> category, date_from |-> date_from,
     date_to |-> date_to, min_amount |-> min_amount,
     max_amount |-> max_amount]

Y2023 == <<"2", "0", "2", "3">>
Food == <<"F", "o", "o", "d">>
February == <<"2", "0", "2", "3", "-", "0", "2", "-", "0", "1">>
December == <<"2", "0", "2", "3", "-", "1", "2", "-", "3", "1">>

\* the searches of a behaviour
Filters ==
    {NoFilter,
     Filter(D(Y2023), PyNone, PyNone, PyNone, PyNone, PyNone),
     Filter(PyNone, D(Food), PyNone, PyNone, PyNone, PyNone),
     Filter(PyNone, D(<<"f", "o", "o", "d">>), PyNone, PyNone, PyNone, PyNone),
     Filter(PyNone, D(<<>>), PyNone, PyNone, PyNone, PyNone),
     Filter(PyNone, PyNone, D(February), D(December), PyNone, PyNone),
     Filter(PyNone, PyNone, PyNone, PyNone, PyFloat(300), PyFloat(700)),
     Filter(D(Y2023), D(Food), PyNone, PyNone, PyFloat(0), PyNone)}

\* `if year:`, `if category:`, `if date_from:`, `if date_to:`
Given(v) == v.t = "str" /\ v.s # <<>>

\* sqlite_db.py:289-311, the WHERE clause; a comparison with NULL is not
\* true
SqlWhere(row, q) ==
    /\ Given(q.year) => row.year = q.year.s
    /\ Given(q.category) =>
          row.category.t = "str" /\ row.category.s = q.category.s
    /\ Given(q.date_from) => ~StrLess(row.date.s, q.date_from.s)
    /\ Given(q.date_to) => ~StrLess(q.date_to.s, row.date.s)
    /\ q.min_amount.t # "none" => row.amount.n >= q.min_amount.n
    /\ q.max_amount.t # "none" => row.amount.n <= q.max_amount.n

\* firestore_db.py:280-290, 297-304: the records of the year or of all the
\* years, then the filters on category and dates
FsKept(db, q) ==
    {i \in DOMAIN db :
        /\ Given(q.year) => db[i].year = q.year.s
        /\ Given(q.category) => db[i].category = q.category
        /\ Given(q.date_from) => ~StrLess(db[i].date.s, q.date_from.s)
        /\ Given(q.date_to) => ~StrLess(q.date_to.s, db[i].date.s)}

\* firestore_db.py:306-310: amount >= min_amount raises for an amount that
\* is not a number
FsCompareRaises(db, q) ==
    /\ q.min_amount.t # "none" \/ q.max_amount.t # "none"
    /\ \E i \in FsKept(db, q) : db[i].amount.t \notin {"float", "absent"}

\* firestore_db.py:306-310
FsInRange(row, q) ==
    /\ q.min_amount.t # "none" => row.amount.n >= q.min_amount.n
    /\ q.max_amount.t # "none" => row.amount.n <= q.max_amount.n

SqlFound(db, q) == {i \in DOMAIN db : SqlWhere(db[i], q)}

FsFound(db, q) ==
    IF FsCompareRaises(db, q) THEN {}
    ELSE {i \in FsKept(db, q) : FsInRange(db[i], q)}

Searched(q, outcome, raised_, found) ==
    Reply("search", <<>>, q, outcome, raised_, "", 0, <<>>, Zeroed, found)

\* ---- the operations ----

\* SQLiteDatabase.get_year_statistics(year), nothing is caught
SQLiteGetYearStatistics ==
    /\ backend = "sqlite"
    /\ \E yr \in Years :
          \/ \E f \in Orders(SqlCategories(store, Partition(store, yr))) :
                /\ TotalDescending(store, f)
                /\ ReadReplies(SqlStatistics(store, yr, f))
          \/ Raises("stats", yr, NoFilter)

\* FirestoreDatabase.get_year_statistics(year)
FirestoreGetYearStatistics ==
    /\ backend = "firestore"
    /\ \E yr \in Years :
          \/ /\ ~db_ok
             /\ ReadReplies(Statistics(yr, "no_client", FALSE, Zeroed))
          \/ /\ db_ok
             /\ ReadReplies(Statistics(yr, "statement", FALSE, Zeroed))
          \/ /\ db_ok
             /\ \E f \in Orders(FsCategories(store, Partition(store, yr))) :
                   /\ TotalDescending(store, f)
                   /\ ReadReplies(FsStatistics(store, yr, f))

\* SQLiteDatabase.search_expenses(...), sqlite_db.py:269-332, nothing is
\* caught
SQLiteSearchExpenses ==
    /\ backend = "sqlite"
    /\ \E q \in Filters :
          \/ \E f \in Orders(SqlFound(store, q)) :
                /\ DateDescending(store, f)
                /\ ReadReplies(Searched(q, "ok", FALSE, Listed(store, f)))
          \/ Raises("search", <<>>, q)

\* FirestoreDatabase.search_expenses(...), firestore_db.py:266-321
FirestoreSearchExpenses ==
    /\ backend = "firestore"
    /\ \E q \in Filters :
          \/ /\ ~db_ok
             /\ ReadReplies(Searched(q, "no_client", FALSE, <<>>))
          \/ /\ db_ok
             /\ ReadReplies(Searched(q, "statement", FALSE, <<>>))
          \/ /\ db_ok
             /\ \E f \in Orders(FsFound(store, q)) :
                   /\ DateDescending(store, f)
                   /\ ReadReplies(Searched(q, "ok", FALSE, Listed(store, f)))

NextQuery ==
    \/ SQLiteSaveLife
    \/ FirestoreSaveLife
    \/ SQLiteDeleteExpensesByYear
    \/ FirestoreDeleteExpensesByYear
    \/ SQLiteGetYearStatistics
    \/ FirestoreGetYearStatistics
    \/ SQLiteSearchExpenses
    \/ FirestoreSearchExpenses

SpecQuery == InitStore /\ [][NextQuery]_vars

\* ------------------------------------------------------------------------
\* A save and a delete of two requests, store call by store call (SpecRace)
\* ------------------------------------------------------------------------
\* Neither backend holds a lock of its own around an operation: each call
\* of sqlite_db.py opens its own connection (lines 55-57) and each call of
\* firestore_db.py talks to the shared service, so two requests served by
\* two processes meet only in the engine.  The save is cut at its commit
\* and the delete between its read and its write.

\* the uploads whose writes fit one batch, so that the save publishes once
RaceInputs == {d \in LifeInputs : Len(d) <= max_batch_size}

\* the save builds its transaction or batch: nothing is visible to the
\* other request until the commit
SaveBegins(yr, data, out) ==
    /\ race.spc = "idle"
    /\ handed + Len(data) <= MaxStore
    /\ handed' = handed + Len(data)
    /\ race' = [race EXCEPT
                    !.spc = "writing",
                    !.scall = [year |-> yr, expense_data |-> data,
                               source_file |-> SourceFile],
                    !.out = out]
    /\ UNCHANGED <<pipeline, backend, db_ok, store, before, call, ret,
                   commits, query, expenses, reply>>

\* sqlite_db.py:76-103: the connection, and the INSERTs in the transaction
\* they open
SQLiteSaveInserts ==
    /\ backend = "sqlite"
    /\ \E yr \in Years, data \in RaceInputs, commit_fails \in BOOLEAN :
          SaveBegins(yr, data, SqlSave(yr, data, SourceFile, commit_fails))

\* firestore_db.py:57-82: batch.set() for each record
FirestoreSaveSets ==
    /\ backend = "firestore"
    /\ \E yr \in Years, data \in RaceInputs :
          \E fails \in [1..Attempts(data) -> BOOLEAN] :
             SaveBegins(yr, data, FsSave(yr, data, SourceFile, fails))

\* sqlite_db.py:104-120, firestore_db.py:84-110: the commit publishes the
\* rows, or raises and publishes none, and save_expenses returns
SaveCommits ==
    /\ race.spc = "writing"
    /\ store' = store \o race.out.persisted
    /\ before' = store
    /\ call' = race.scall
    /\ ret' = race.out.ret
    /\ commits' = race.out.commits
    /\ race' = [race EXCEPT !.spc = "idle", !.scall = NoRace.scall,
                            !.out = NoRace.out]
    /\ UNCHANGED <<pipeline, backend, db_ok, handed, query, expenses, reply>>

\* the write lock of the database file: held by the connection of the save
\* from its first INSERT to its commit or rollback
WriteLocked ==
    /\ race.spc = "writing"
    /\ race.out.commits[1].size > 0

\* the delete reads: what it will report and what it will remove
DeleteReads(yr, n, S) ==
    /\ race.dpc # "read"
    /\ race' = [race EXCEPT !.dpc = "read", !.dyear = yr, !.count = n,
                            !.streamed = S,
                            !.atstart = Cardinality(Partition(store, yr)),
                            !.removed = 0, !.left = 0, !.deleted = 0,
                            !.status = ""]
    /\ UNCHANGED <<pipeline, backend, db_ok, store, before, call, ret,
                   commits, handed, query, expenses, reply>>

\* the delete writes and returns
DeleteWrites(out, removed, left) ==
    /\ store' = out.left
    /\ reply' = out.reply
    /\ race' = [race EXCEPT !.dpc = "returned", !.removed = removed,
                            !.left = left,
                            !.deleted = out.reply.deleted,
                            !.status = out.reply.status]
    /\ UNCHANGED <<pipeline, backend, db_ok, before, call, ret, commits,
                   handed, query, expenses>>

\* sqlite_db.py:246-247: SELECT COUNT(*) FROM expenses WHERE year = ?, a
\* read of the committed rows
SQLiteDeleteCounts ==
    /\ backend = "sqlite"
    /\ \E yr \in Years :
          DeleteReads(yr, Cardinality(Partition(store, yr)), {})

\* sqlite_db.py:250-259: DELETE FROM expenses WHERE year = ? removes the
\* rows committed by now, commit, and the count read before is returned
SQLiteDeleteDeletes ==
    /\ backend = "sqlite"
    /\ race.dpc = "read"
    /\ ~WriteLocked
    /\ DeleteWrites([left |-> SqlDelete(store, race.dyear, "ok").left,
                     reply |-> Reply("delete", race.dyear, NoFilter, "ok",
                                     FALSE, "ok", race.count, <<>>, Zeroed,
                                     <<>>)],
                    Cardinality(Partition(store, race.dyear)), 0)

\* sqlite_db.py:261-267: the DELETE waits for the lock until it raises
\* "database is locked"; rollback, and the error result
SQLiteDeleteLocked ==
    /\ backend = "sqlite"
    /\ race.dpc = "read"
    /\ WriteLocked
    /\ DeleteWrites(SqlDelete(store, race.dyear, "statement"), 0,
                    race.atstart)

\* firestore_db.py:242: docs = expenses_ref.limit(500).stream()
FirestoreDeleteStreams ==
    /\ backend = "firestore"
    /\ \E yr \in Years, S \in SUBSET (1..Len(store)) :
          /\ Streamed(store, yr, S)
          /\ DeleteReads(yr, Cardinality(S), S)

\* firestore_db.py:243-257: batch.delete() of the streamed documents,
\* commit, the year document, and their number is returned; a save that
\* committed since the stream put its documents behind the streamed ones
FirestoreDeleteCommits ==
    /\ backend = "firestore"
    /\ race.dpc = "read"
    /\ DeleteWrites(FsDelete(store, race.dyear, race.streamed, "ok"),
                    Cardinality(race.streamed),
                    race.atstart - Cardinality(race.streamed))

InitRace == InitStore /\ db_ok

NextRace ==
    \/ SQLiteSaveInserts
    \/ FirestoreSaveSets
    \/ SaveCommits
    \/ SQLiteDeleteCounts
    \/ SQLiteDeleteDeletes
    \/ SQLiteDeleteLocked
    \/ FirestoreDeleteStreams
    \/ FirestoreDeleteCommits

SpecRace == InitRace /\ [][NextRace]_vars

\* ------------------------------------------------------------------------
\* Properties of the heuristic normalizer (SpecMock)
\* ------------------------------------------------------------------------

\* C1: the heuristic normalizer never raises, returns one record per input
\* row in input order, and record i is what the normalizer makes of row i
\* alone.
C1_OneRecordPerRow ==
    pc = "done" =>
        /\ ~raised
        /\ result.t = "list"
        /\ Len(result.items) = Len(raw_data)
        /\ \A i \in 1..Len(raw_data) :
              result.items[i] = MockNormalize(<<raw_data[i]>>, year).items[1]

C1_Witness ==
    /\ pc = "done"
    /\ Len(raw_data) = 2
    /\ Len(result.items) = 2
    /\ result.items[1] # result.items[2]
    /\ result.items[1].date.s = <<"J", "a", "n", " ", "5">>

NoVocabularyKey(row) ==
    \A j \in 1..Len(row) :
        LET k == StrLower(row[j].key)
        IN  ~(IsDateKey(k) \/ IsAmountKey(k) \/ IsDescriptionKey(k) \/ IsCategoryKey(k))

NonNull(v) == v.t \notin {"none", "absent"}

\* C2: a row none of whose keys matches a vocabulary becomes
\* {date: "<year>-01-01", category: "General", description: "Expense",
\* amount: 0.0}, and every emitted record carries the four fields, none null.
C2_DefaultsAndAllFields ==
    pc = "done" =>
        /\ Len(result.items) = Len(raw_data)
        /\ \A i \in 1..Len(result.items) :
              LET rec == result.items[i]
              IN  /\ NoVocabularyKey(raw_data[i]) =>
                        rec = Expense(PyStr(year \o <<"-", "0", "1", "-", "0", "1">>), PyStr(<<"G", "e", "n", "e", "r", "a", "l">>),
                                      PyStr(<<"E", "x", "p", "e", "n", "s", "e">>), PyFloat(0))
                  /\ rec.t = "dict" /\ rec.has = Fields
                  /\ NonNull(rec.date) /\ NonNull(rec.category)
                  /\ NonNull(rec.description) /\ NonNull(rec.amount)

C2_Witness ==
    /\ pc = "done"
    /\ \E i \in 1..Len(raw_data) :
          /\ raw_data[i] # <<>>
          /\ NoVocabularyKey(raw_data[i])
          /\ result.items[i].date = PyStr(year \o <<"-", "0", "1", "-", "0", "1">>)
    /\ \E i \in 1..Len(raw_data) :
          \E j \in 1..Len(raw_data[i]) : raw_data[i][j].value = PyNone

\* ------------------------------------------------------------------------
\* Properties of the remote normalizer adapter (SpecNorm)
\* ------------------------------------------------------------------------

\* C3: with the credential missing, a non-200 status or a response without
\* candidates, normalize returns the heuristic output for all the rows, and
\* with the credential missing no request is sent.
C3_FallbackOnFullRows ==
    pc = "done" =>
        /\ (GEMINI_API_KEY = <<>> \/ remote.kind \in {"status_500", "no_candidates"})
              => result = MockNormalize(raw_data, year)
        /\ GEMINI_API_KEY = <<>> => http_calls = 0

C3_Witness ==
    /\ pc = "done"
    /\ remote.kind = "status_500"
    /\ http_calls = 1
    /\ Len(raw_data) > SampleSize
    /\ Len(result.items) = Len(raw_data)

IsRecord(item) == item.t = "dict" /\ Fields \subseteq item.has

\* C4: a completion text that does not parse as a JSON array (not JSON, or
\* JSON of another shape: an object, also an empty one, a string, a number)
\* makes normalize return the heuristic output for all the rows, so that
\* what normalize returns is always a sequence of records.
C4_NonArrayFallsBack ==
    pc = "done" =>
        /\ (remote.kind = "text" /\ (LoadsRaises(remote) \/ remote.json.t # "list"))
              => result = MockNormalize(raw_data, year)
        /\ result.t = "list"

\* C5: validation is all-or-nothing: the whole remote array when every
\* element has the four fields, the whole heuristic output when some
\* element lacks one, never a mix.
C5_AllOrNothing ==
    (pc = "done" /\ remote.kind = "text" /\ ~LoadsRaises(remote)
        /\ remote.json.t = "list") =>
        IF \A i \in 1..Len(remote.json.items) : IsRecord(remote.json.items[i])
        THEN result = remote.json
        ELSE result = MockNormalize(raw_data, year)

\* C6: normalize never lets an error reach its caller; whatever the
\* remote call does, it returns a list of records.
C6_AlwaysAListOfRecords ==
    pc = "done" =>
        /\ ~raised
        /\ result.t = "list"
        /\ \A i \in 1..Len(result.items) : IsRecord(result.items[i])

\* ------------------------------------------------------------------------
\* save_expenses: accounting, per-record failures, status, round trip
\* ------------------------------------------------------------------------
\* a save_expenses call has returned
SaveReturned == ret.path # "none"

\* the record fails individually: the loop body raises on it
Rejected(r) ==
    \/ r.t # "dict"
    \/ /\ backend = "sqlite"
       /\ \/ Bind(Get(r, "date")) = PyNone
          \/ Bind(Get(r, "amount")) = PyNone

\* the records of the last call that fail individually, and the others
RejectedRecords == SelectSeq(call.expense_data, Rejected)
AcceptedRecords == SelectSeq(call.expense_data, LAMBDA r : ~Rejected(r))

\* a record as the claims expect it in the store: its four fields, stamped
\* with the year and the file of the call
Stamped(r) ==
    [year |-> call.year, source_file |-> call.source_file, has |-> Fields,
     date |-> r.date, category |-> r.category,
     description |-> r.description, amount |-> r.amount]

Count(s, x) == Cardinality({i \in DOMAIN s : s[i] = x})

SameMultiset(a, b) ==
    /\ Len(a) = Len(b)
    /\ \A i \in DOMAIN a : Count(a, a[i]) = Count(b, a[i])

\* C7: whenever save_expenses returns through the normal result path, on
\* either backend, imported + skipped equals the number of input records,
\* also when writes or an in-loop batch commit failed.
C7_CountersAddUp ==
    ret.path = "normal" =>
        ret.imported + ret.skipped = Len(call.expense_data)

\* C8: when records of the input fail individually, every other record of
\* the input is persisted when the call returns its result, skipped is the
\* number of records that failed and errors holds min(failures, cap)
\* messages.
C8_FailuresDoNotAbort ==
    (ret.path = "normal" /\ Len(RejectedRecords) > 0) =>
        /\ store = before \o [i \in DOMAIN AcceptedRecords |-> Stamped(AcceptedRecords[i])]
        /\ ret.skipped = Len(RejectedRecords)
        /\ Len(ret.errors) = Min(Len(RejectedRecords), MaxErrors)

\* C9 as stated: in every result save_expenses returns, status is "ok"
\* exactly when imported > 0.
C9_StatusFollowsImported ==
    SaveReturned => (ret.status = "ok" <=> ret.imported > 0)

\* C9: in every result returned through the normal result path status is
\* "ok" exactly when imported > 0 and "error" otherwise; a result returned
\* through the fatal path or without a client has status "error"; saving an
\* empty sequence returns status "error" with imported 0.
C9_StatusOnEachPath ==
    /\ ret.path = "normal" =>
          /\ ret.status \in {"ok", "error"}
          /\ ret.status = "ok" <=> ret.imported > 0
    /\ ret.path \in {"fatal", "no_client"} => ret.status = "error"
    /\ (SaveReturned /\ call.expense_data = <<>>) =>
          (ret.status = "error" /\ ret.imported = 0)

C9_Witness ==
    /\ ret.path = "normal"
    /\ ret.status = "ok"
    /\ ret.skipped > 0
    /\ Len(store) > Len(before)

\* the records the store held for a year before the last save
Prior(yr) == SelectSeq(before, LAMBDA r : r.year = yr)

\* the last save succeeded on a year that held no data, and the year yr was
\* read back in full afterwards
ReadBack ==
    /\ ret.status = "ok"
    /\ Prior(call.year) = <<>>
    /\ query # NoQuery
    /\ query.limit = NoLimit

\* C10: after save_expenses(y, records, f) succeeds on a year without prior
\* data, get_expenses_by_year(y) returns exactly the saved records, as a
\* multiset, equal on the four fields and stamped with y and f, whatever
\* year their dates lie in; get_expenses_by_year(y') for another year
\* returns none of them, only what that year held before.
C10_RoundTripByCallerYear ==
    ReadBack =>
        /\ query.year = call.year =>
              SameMultiset(expenses,
                           [i \in DOMAIN AcceptedRecords |-> Stamped(AcceptedRecords[i])])
        /\ query.year # call.year =>
              /\ SameMultiset(expenses, Prior(query.year))
              /\ \A i \in DOMAIN expenses : expenses[i].year # call.year

C10_Witness ==
    /\ ReadBack
    /\ query.year = call.year
    /\ Len(expenses) >= 2
    /\ \E i \in DOMAIN expenses : ~StartsWith(expenses[i].date.s, call.year)

\* ------------------------------------------------------------------------
\* get_expenses_by_year: order and limit
\* ------------------------------------------------------------------------
\* a get_expenses_by_year call has returned
ReadReturned == query # NoQuery

\* C11: on both backends get_expenses_by_year returns its records ordered
\* by date descending: of two adjacent records the earlier one's date
\* string is greater than or equal to the later one's.
C11_ReturnedDateDescending ==
    ReadReturned =>
        \A i \in 1..(Len(expenses) - 1) :
            ~StrLess(expenses[i].date.s, expenses[i + 1].date.s)

\* C12: for every limit >= 0 and a partition holding N records, the result
\* has exactly min(limit, N) records, the first min(limit, N) of the
\* unlimited date-descending result.
C12_LimitTruncates ==
    (ReadReturned /\ query.limit >= 0) =>
        /\ Len(expenses) = Min(query.limit, Cardinality(Partition(store, query.year)))
        /\ \E f \in Orders(Partition(store, query.year)) :
              /\ DateDescending(store, f)
              /\ expenses = Take(Listed(store, f), query.limit)

\* ------------------------------------------------------------------------
\* save_expenses: batch ceiling and rollback
\* ------------------------------------------------------------------------
\* C19: in every execution of the document backend's save_expenses, failed
\* commit attempts included, no batch commit is attempted with more writes
\* than the batch ceiling.
C19_BatchCeiling ==
    backend = "firestore" =>
        \A i \in DOMAIN commits : commits[i].size <= max_batch_size

\* C20: when the relational backend's save_expenses ends through its fatal
\* path, none of the records of the call is persisted afterwards, the
\* records persisted before are unchanged, and the status is "error".
C20_FatalRollsBack ==
    (backend = "sqlite" /\ ret.path = "fatal") =>
        /\ store = before
        /\ ret.status = "error"

C20_Witness ==
    /\ backend = "sqlite"
    /\ ret.path = "fatal"
    /\ ret.imported > 0
    /\ before # <<>>
    /\ store = before

\* ---- deleting and listing ----

\* the years that hold at least one persisted record
HeldYears == {y \in Years : Partition(store, y) # {}}

\* C13: after any saves and deletes, get_all_years() returns exactly the
\* years that hold at least one persisted record, each once, in strictly
\* descending order; a year left without records is absent.
C13_YearsHoldingRecords ==
    (reply.op = "years" /\ reply.outcome = "ok") =>
        /\ {reply.years[i] : i \in DOMAIN reply.years} = HeldYears
        /\ \A i \in 1..(Len(reply.years) - 1) :
              StrLess(reply.years[i + 1], reply.years[i])

\* both years are listed while one of them holds several records
C13_Witness ==
    /\ reply.op = "years" /\ reply.outcome = "ok"
    /\ Len(reply.years) = 2
    /\ Len(store) > 2

\* C14: delete_expenses_by_year(y) on a partition of N records, N beyond
\* one delete batch included, returns status "ok" with deleted = N; it
\* leaves nothing of the year, so that a get of the year that follows
\* returns an empty sequence and a second delete finds 0 records.
C14_DeleteRemovesThePartition ==
    (reply.op = "delete" /\ reply.outcome = "ok") =>
        /\ reply.status = "ok"
        /\ reply.deleted = Cardinality(Partition(before, reply.year))
        /\ Partition(store, reply.year) = {}
        /\ (ReadReturned /\ query.year = reply.year) => expenses = <<>>

\* ---- searching and aggregating ----

\* a record satisfies the filters that were supplied
Satisfies(r, q) ==
    /\ q.year # PyNone => r.year = q.year.s
    /\ q.category # PyNone => r.category = q.category
    /\ q.date_from # PyNone => ~StrLess(r.date.s, q.date_from.s)
    /\ q.date_to # PyNone => ~StrLess(q.date_to.s, r.date.s)
    /\ q.min_amount # PyNone =>
          r.amount.t = "float" /\ r.amount.n >= q.min_amount.n
    /\ q.max_amount # PyNone =>
          r.amount.t = "float" /\ r.amount.n <= q.max_amount.n

\* C15: search_expenses returns exactly the persisted records, of all the
\* years when year is omitted, that satisfy every supplied filter, ordered
\* by date descending; being the same function of the stored data on both
\* backends, the result is the same for the same stored data.
C15_SearchReturnsTheMatches ==
    (reply.op = "search" /\ reply.outcome = "ok") =>
        /\ SameMultiset(reply.found,
                        SelectSeq(store, LAMBDA r : Satisfies(r, reply.filter)))
        /\ \A i \in 1..(Len(reply.found) - 1) :
              ~StrLess(reply.found[i].date.s, reply.found[i + 1].date.s)

\* the partition the last get_year_statistics was asked about
Asked == Partition(store, reply.year)

\* C16: after any saves and deletes, get_year_statistics(y) reports the
\* number of records now in partition y and the sum of their amounts, and
\* the zeroed structure for a year without records.
C16_StatisticsCountThePartition ==
    (reply.op = "stats" /\ reply.outcome = "ok") =>
        /\ reply.stats.total_expenses = Cardinality(Asked)
        /\ reply.stats.total_amount = Total(store, Asked)
        /\ Asked = {} => reply.stats = Zeroed

\* the records of the partition whose category is missing, null or empty
Unlabelled ==
    {i \in Asked : store[i].category.t # "str" \/ store[i].category.s = <<>>}

\* C17: in by_category the records without category are counted together
\* in one entry labelled "Uncategorized", and no two entries carry the same
\* label (the amounts being numbers, so that there is an aggregate).
C17_OneUncategorizedEntry ==
    (/\ reply.op = "stats" /\ reply.outcome = "ok"
     /\ AmountsAdd(store, Asked)) =>
        LET entries == reply.stats.by_category IN
        /\ \A a, b \in DOMAIN entries :
              a # b => entries[a].category # entries[b].category
        /\ Unlabelled # {} =>
              \E a \in DOMAIN entries :
                 /\ entries[a].category = Uncategorized
                 /\ entries[a].count = Cardinality(Unlabelled)

\* C18: no operation lets a backend exception reach its caller; when a
\* store call fails the listing and the search are empty, the statistics
\* zeroed, and the result of save and of delete has status "error".
C18_NothingPropagates ==
    /\ ~reply.raised
    /\ reply.outcome # "ok" =>
          /\ reply.op = "years" => reply.years = <<>>
          /\ reply.op = "search" => reply.found = <<>>
          /\ reply.op = "stats" => reply.stats = Zeroed
          /\ reply.op = "delete" => reply.status = "error"
    /\ ret.path \in {"fatal", "no_client"} => ret.status = "error"

\* ---- retries ----

\* the writes of the call, numbered as issued, that commit i carries
Carried(i) == (commits[i].upto - commits[i].size + 1)..commits[i].upto

\* C21: nothing is retried within one operation: a normalize call issues
\* at most one HTTP request, and no write of a batch commit that failed is
\* sent again by a later commit of the same save_expenses.
C21_NoRetries ==
    /\ http_calls <= 1
    /\ \A i, j \in DOMAIN commits :
          (i < j /\ ~commits[i].ok) => Carried(i) \cap Carried(j) = {}

\* ---- the heuristic normalizer, field by field ----

\* the heuristic normalizer has returned
MockReturned == pc = "done" /\ ~raised /\ result.t = "list"

\* C22: every record the heuristic normalizer emits has a non-negative
\* amount, whatever the row, a negative amount candidate included.
C22_AmountsNonNegative ==
    MockReturned =>
        \A i \in DOMAIN result.items :
            /\ result.items[i].amount.t = "float"
            /\ result.items[i].amount.n >= 0

\* the date the loop over the cells of row i ends with (None when no date
\* candidate was taken)
Resolved(i) == ClassifyRow(RowDefaults, raw_data[i]).date_val

Partial(s) == Contains(<<"/">>, s) \/ Contains(<<"-">>, s)

\* C23: the emitted date starts with the year or contains neither "/" nor
\* "-"; a resolved date that starts with the year is emitted unchanged, and
\* one that does not and contains "/" or "-" is emitted as "<year>-"
\* followed by the original string.
C23_DateRepair ==
    MockReturned =>
        \A i \in DOMAIN result.items :
            LET emitted == result.items[i].date.s IN
            /\ StartsWith(emitted, year) \/ ~Partial(emitted)
            /\ (Truthy(Resolved(i)) /\ StartsWith(Resolved(i).s, year)) =>
                  emitted = Resolved(i).s
            /\ (/\ Truthy(Resolved(i)) /\ ~StartsWith(Resolved(i).s, year)
                /\ Partial(Resolved(i).s)) =>
                  emitted = year \o <<"-">> \o Resolved(i).s

\* a date without the year and one without separators in the same call
C23_Witness ==
    /\ MockReturned
    /\ \E i, j \in DOMAIN result.items :
          /\ Truthy(Resolved(i)) /\ Partial(Resolved(i).s)
          /\ ~StartsWith(Resolved(i).s, year)
          /\ result.items[i].date.s = year \o <<"-">> \o Resolved(i).s
          /\ Truthy(Resolved(j)) /\ ~Partial(Resolved(j).s)
          /\ result.items[j].date = Resolved(j)

\* the positions of row whose key matches the date vocabulary
DateKeys(row) == {k \in DOMAIN row : IsDateKey(StrLower(row[k].key))}

Last(S) == CHOOSE k \in S : \A m \in S : m <= k

\* the date a value stands for: its date representation formatted, or
\* its string form
Passed(v) == IF HasDateAttr(v) THEN PyStr(Strftime(v.n)) ELSE PyStr(Str(v))

\* C24: the date of a row with a key of the date vocabulary is taken from
\* the value of that key whatever its type, formatted as YYYY-MM-DD when
\* the value exposes a date representation and as its string form
\* otherwise, and is then repaired as every date is.
C24_DateFromAnyValue ==
    MockReturned =>
        \A i \in DOMAIN result.items :
            DateKeys(raw_data[i]) # {} =>
                result.items[i].date =
                    ResolveDate(
                        Passed(raw_data[i][Last(DateKeys(raw_data[i]))].value),
                        year)

\* the positions of row whose key matches the amount vocabulary and whose
\* value, with ",", "$" and "RM" removed, parses as a number
AmountKeys(row) ==
    {k \in DOMAIN row :
        /\ IsAmountKey(StrLower(row[k].key))
        /\ ParseFloat(AmountText(row[k].value)).ok}

\* C25: the amount of a row is the parsed value of the last key, in column
\* order, that matches the amount vocabulary and parses; a candidate that
\* does not parse changes nothing, and the amount is 0.0 when none parses.
C25_LastParsedAmount ==
    MockReturned =>
        \A i \in DOMAIN result.items :
            result.items[i].amount =
                IF AmountKeys(raw_data[i]) = {} THEN PyFloat(0)
                ELSE ParseFloat(AmountText(
                         raw_data[i][Last(AmountKeys(raw_data[i]))].value)).v

\* an amount that parses followed, in the same row, by a candidate that
\* does not
C25_Witness ==
    /\ MockReturned
    /\ \E i \in DOMAIN result.items :
          \E k \in AmountKeys(raw_data[i]) :
             /\ k < Len(raw_data[i])
             /\ IsAmountKey(StrLower(raw_data[i][k + 1].key))
             /\ k + 1 \notin AmountKeys(raw_data[i])
             /\ result.items[i].amount.n # 0

\* ---- what save_expenses reports ----

\* C26: on either backend and on every path, the imported value that
\* save_expenses returns is the number of records of the call that are in
\* the store when it returns.
C26_ImportedIsPersisted ==
    SaveReturned => ret.imported = Len(store) - Len(before)

\* ---- the frame of delete ----

\* the records of year yr in db, in the order they are stored
OfYear(db, yr) == SelectSeq(db, LAMBDA r : r.year = yr)

\* C28: delete_expenses_by_year(y), returning "ok" or "error" or raising,
\* removes and modifies no record of another year: the records of every
\* y' # y are the same before and after the call.
C28_DeleteKeepsOtherYears ==
    reply.op = "delete" =>
        \A y \in Years \ {reply.year} : OfYear(store, y) = OfYear(before, y)

\* a delete that removed records while another year held some
C28_Witness ==
    /\ reply.op = "delete" /\ reply.status = "ok" /\ reply.deleted > 0
    /\ \E y \in Years \ {reply.year} : OfYear(store, y) # <<>>

\* C27: a delete that interleaves with a save of another request reports
\* as deleted the number of records it removed, and when it returns "ok"
\* none of the records that were in the year when it started is left
C27_DeleteCountsWhatItRemoves ==
    race.dpc = "returned" =>
        /\ race.deleted = race.removed
        /\ race.status = "ok" => race.left = 0

====
